---- MODULE Spec2Model ----
(***************************************************************************)
(* The storefront of src/app.py as a state machine.  The state is the      *)
(* relational store (User, News, Product, Order), the session cookie of    *)
(* the requesting browser, and the last request with the response it got.  *)
(* Every step is one HTTP request handled to completion by one handler.    *)
(*                                                                         *)
(* Conventions:                                                            *)
(*  - a nullable value is a sequence of length at most one: None is <<>>   *)
(*    and Some(x) is <<x>>.  A form field is what request.form.get /       *)
(*    request.args.get returns for it: None when the field is absent (or,  *)
(*    for type=int / type=float, does not parse), Some(value) otherwise;   *)
(*  - prices are counted in kopecks, so that the seeded price 69999.99 is  *)
(*    the integer 6999999;                                                 *)
(*  - the four order statuses are written in Latin letters:                *)
(*    "novyj", "v obrabotke", "vypolnen", "otmenen";                       *)
(*  - created_at columns are not modelled: no handler reads them except to *)
(*    order a listing.                                                     *)
(***************************************************************************)
EXTENDS Integers, Sequences, FiniteSets, TLC

VARIABLES
    users,      \* table User: sequence of rows, the id is the index (rows are never deleted)
    news,       \* table News: function from the ids in use to rows
    products,   \* table Product: function from the ids in use to rows
    orders,     \* table Order: sequence of rows, the id is the index (rows are never deleted)
    session,    \* flask_login's session cookie: None, or Some(user id)
    uploads,    \* the files under UPLOAD_FOLDER: function from the paths in use to contents
    last,       \* the last request and its response
    toggles,    \* history: the run of consecutive successful toggles that ends the request sequence
    inflight    \* create_order requests of concurrent workers between their checks and their commit

vars == <<users, news, products, orders, uploads, session, last, toggles, inflight>>

None == <<>>

Some(x) == <<x>>

\* Python truthiness of an optional string: None and '' are falsy.
TruthyStr(o) == o # None /\ o[1] # ""

\* Python truthiness of an optional number: None and 0 are falsy.
TruthyNum(o) == o # None /\ o[1] # 0

\* request.form.get(key, default, type=int): the default when absent or unparsable.
FormGet(o, default) == IF o = None THEN default ELSE o[1]

\* The id SQLite gives the next row of a table whose rows can be deleted: max(rowid) + 1.
NextId(table) ==
    IF DOMAIN table = {} THEN 1
    ELSE (CHOOSE i \in DOMAIN table : \A j \in DOMAIN table : j <= i) + 1

\* A function with one more row.
Insert(table, id, row) == [i \in DOMAIN table \cup {id} |-> IF i = id THEN row ELSE table[i]]

\* A function without the row id.
Delete(table, id) == [i \in DOMAIN table \ {id} |-> table[i]]

(***************************************************************************)
(* Passwords.  generate_password_hash draws a salt and stores it with the  *)
(* digest of salt and password; check_password_hash recomputes the digest  *)
(* with the stored salt.  The digest is an ideal hash: distinct (salt,     *)
(* password) pairs have distinct digests.                                  *)
(***************************************************************************)
generate_password_hash(password, salt) ==
    [method |-> "pbkdf2", salt |-> salt, digest |-> <<"H", salt, password>>]

check_password_hash(pwhash, password) ==
    generate_password_hash(password, pwhash.salt) = pwhash

check_password(user, password) == check_password_hash(user.password_hash, password)

ORDER_STATUSES == {"novyj", "v obrabotke", "vypolnen", "otmenen"}

(***************************************************************************)
(* Derived attributes.                                                     *)
(***************************************************************************)
in_stock_BugNonNegative(product) == product.is_active /\ product.stock_quantity >= 0

in_stock_BugStockOnly(product) == product.stock_quantity > 0

in_stock(product) == product.is_active /\ product.stock_quantity > 0

total_price_BugUnitPrice(order) ==
    IF order.product_id \in DOMAIN products
    THEN products[order.product_id].price[1]
    ELSE 0

total_price(order) ==
    IF order.product_id \in DOMAIN products
    THEN products[order.product_id].price[1] * order.quantity
    ELSE 0

\* current_user.is_authenticated: the cookie names a user that load_user finds.
is_authenticated == session # None /\ session[1] \in DOMAIN users

current_user == users[session[1]]

is_admin == is_authenticated /\ current_user.is_admin

(***************************************************************************)
(* init_database: the store after construction.                            *)
(***************************************************************************)
SeedUsers(salt1, salt2) == <<
    [username |-> Some("admin"), email |-> Some("admin@example.com"),
     password_hash |-> generate_password_hash("admin123", salt1), is_admin |-> TRUE],
    [username |-> Some("testuser"), email |-> Some("test@example.com"),
     password_hash |-> generate_password_hash("test123", salt2), is_admin |-> FALSE] >>

SeedProduct(name, price, category, stock) ==
    [name |-> Some(name), description |-> Some("text"), price |-> Some(price), image |-> None,
     category |-> Some(category), is_active |-> TRUE, stock_quantity |-> stock]

SeedProducts == <<
    SeedProduct("Notebook HP Pavilion", 6999999, "Electronics", 5),
    SeedProduct("Smartphone Samsung Galaxy", 5499950, "Electronics", 0),
    SeedProduct("Headphones Sony WH-1000XM4", 2499900, "Accessories", 10),
    SeedProduct("Book Python", 159999, "Books", 20) >>

SeedNews == <<
    [title |-> Some("Opening"), content |-> Some("text"), image |-> None, is_published |-> TRUE],
    [title |-> Some("Discounts"), content |-> Some("text"), image |-> None, is_published |-> TRUE] >>

NoRequest == [route |-> "none", result |-> "none"]

init_database(salts) ==
    /\ \E salt1 \in salts, salt2 \in salts : users = SeedUsers(salt1, salt2)
    /\ products = SeedProducts
    /\ news = SeedNews
    /\ orders = <<>>
    /\ uploads = <<>>
    /\ session = None
    /\ last = NoRequest
    /\ toggles = <<>>
    /\ inflight = <<>>

(***************************************************************************)
(* Responses.                                                              *)
(***************************************************************************)
\* The handler answers `result` to request `req`; the run of toggles is broken, and the
\* requests other workers have in flight stay as they are.
Reply(req, result) ==
    /\ last' = [req EXCEPT !.result = result]
    /\ toggles' = <<>>
    /\ UNCHANGED inflight

\* The handler answers without touching the store or the session.
ReplyOnly(req, result) ==
    /\ Reply(req, result)
    /\ UNCHANGED <<users, news, products, orders, uploads, session>>

\* flask_login's @login_required turns an unauthenticated request away to login_view.
Unauthorized == ~is_authenticated

\* "if not current_user.is_admin": the guard that opens every admin handler.
AccessDenied_BugOpen == FALSE

AccessDenied == ~current_user.is_admin

(***************************************************************************)
(* /order/create/<product_id>                                              *)
(***************************************************************************)
\* quantity = request.form.get('quantity', 1, type=int); if quantity < 1: quantity = 1
RequestedQuantity_BugNoFloor(form) == FormGet(form.quantity, 1)

RequestedQuantity(form) ==
    LET quantity == FormGet(form.quantity, 1)
    IN  IF quantity < 1 THEN 1 ELSE quantity

\* if quantity > product.stock_quantity: flash and redirect back to the form
ExceedsStock_BugNoCheck(quantity, product) == FALSE

ExceedsStock_BugStrict(quantity, product) == quantity >= product.stock_quantity

ExceedsStock(quantity, product) == quantity > product.stock_quantity

\* not customer_name or not customer_phone
MissingContact_BugNameOnly(form) == ~TruthyStr(form.customer_name)

MissingContact(form) == ~TruthyStr(form.customer_name) \/ ~TruthyStr(form.customer_phone)

\* Order(...), then user_id and customer_email from current_user when authenticated.
\* user_id is None or the user's id; status is set by the handler, not by the column default.
NewOrder_BugNoUser(product_id, form, quantity) ==
    [customer_name |-> form.customer_name,
     customer_phone |-> form.customer_phone,
     customer_email |-> form.customer_email,
     user_id |-> None,
     product_id |-> product_id,
     quantity |-> quantity,
     status |-> "novyj",
     notes |-> FormGet(form.notes, <<>>)]

NewOrder(product_id, form, quantity) ==
    [customer_name |-> form.customer_name,
     customer_phone |-> form.customer_phone,
     customer_email |->
        IF is_authenticated /\ ~TruthyStr(form.customer_email) /\ TruthyStr(current_user.email)
        THEN current_user.email
        ELSE form.customer_email,
     user_id |-> IF is_authenticated THEN session ELSE None,
     product_id |-> product_id,
     quantity |-> quantity,
     status |-> "novyj",
     notes |-> FormGet(form.notes, <<>>)]

\* The handler as it would be if a committed order took its quantity off the stock.
create_order_BugDecrement(product_id, method, form, commit_ok) ==
    LET req == [route |-> "create_order", method |-> method, product_id |-> product_id,
                form |-> form, result |-> ""]
    IN  IF product_id \notin DOMAIN products THEN ReplyOnly(req, "404")
        ELSE IF ~in_stock(products[product_id]) THEN ReplyOnly(req, "redirect_product_detail")
        ELSE IF method # "POST" THEN ReplyOnly(req, "render_order_create")
        ELSE IF MissingContact(form) THEN ReplyOnly(req, "flash_required_fields")
        ELSE IF ExceedsStock(RequestedQuantity(form), products[product_id])
             THEN ReplyOnly(req, "flash_only_stock_left")
        ELSE IF ~commit_ok THEN ReplyOnly(req, "flash_order_error")
        ELSE /\ orders' = Append(orders, NewOrder(product_id, form, RequestedQuantity(form)))
             /\ products' = [products EXCEPT
                    ![product_id].stock_quantity = @ - RequestedQuantity(form)]
             /\ Reply(req, "redirect_order_success")
             /\ UNCHANGED <<users, news, uploads, session>>

create_order(product_id, method, form, commit_ok) ==
    LET req == [route |-> "create_order", method |-> method, product_id |-> product_id,
                form |-> form, result |-> ""]
    IN  IF product_id \notin DOMAIN products THEN ReplyOnly(req, "404")
        ELSE IF ~in_stock(products[product_id]) THEN ReplyOnly(req, "redirect_product_detail")
        ELSE IF method # "POST" THEN ReplyOnly(req, "render_order_create")
        ELSE IF MissingContact(form) THEN ReplyOnly(req, "flash_required_fields")
        ELSE IF ExceedsStock(RequestedQuantity(form), products[product_id])
             THEN ReplyOnly(req, "flash_only_stock_left")
        ELSE IF ~commit_ok THEN ReplyOnly(req, "flash_order_error")
        ELSE /\ orders' = Append(orders, NewOrder(product_id, form, RequestedQuantity(form)))
             /\ Reply(req, "redirect_order_success")
             /\ UNCHANGED <<users, news, products, uploads, session>>

\* create_order on a server that runs requests in parallel, as the two steps of one worker.
\* First the part before the commit: the checks, and the Order(...) the worker then holds.
\* `seen` is history: how many orders were stored when the checks ran.
create_order_check(product_id, form) ==
    LET req == [route |-> "create_order", step |-> "check", method |-> "POST",
                product_id |-> product_id, form |-> form, result |-> ""]
        held == [order |-> NewOrder(product_id, form, RequestedQuantity(form)),
                 seen |-> Len(orders)]
    IN  IF product_id \notin DOMAIN products THEN ReplyOnly(req, "404")
        ELSE IF ~in_stock(products[product_id]) THEN ReplyOnly(req, "redirect_product_detail")
        ELSE IF MissingContact(form) THEN ReplyOnly(req, "flash_required_fields")
        ELSE IF ExceedsStock(RequestedQuantity(form), products[product_id])
             THEN ReplyOnly(req, "flash_only_stock_left")
        ELSE /\ inflight' = Append(inflight, held)
             /\ last' = [req EXCEPT !.result = "checked"]
             /\ toggles' = <<>>
             /\ UNCHANGED <<users, news, products, orders, uploads, session>>

\* Then db.session.add(order); db.session.commit() of the worker that holds inflight[i].
create_order_commit(i, commit_ok) ==
    LET req == [route |-> "create_order", step |-> "commit", method |-> "POST",
                product_id |-> inflight[i].order.product_id, seen |-> inflight[i].seen,
                result |-> ""]
    IN  /\ i \in DOMAIN inflight
        /\ inflight' = SubSeq(inflight, 1, i - 1) \o SubSeq(inflight, i + 1, Len(inflight))
        /\ orders' = IF commit_ok THEN Append(orders, inflight[i].order) ELSE orders
        /\ last' = [req EXCEPT
                !.result = IF commit_ok THEN "redirect_order_success" ELSE "flash_order_error"]
        /\ toggles' = <<>>
        /\ UNCHANGED <<users, news, products, uploads, session>>

(***************************************************************************)
(* /login, /logout, /register                                              *)
(***************************************************************************)
\* User.query.filter_by(username=username).first(): the ids of the matching rows.
UsersByUsername(username) == {i \in DOMAIN users : users[i].username = username}

\* User.query.filter_by(email=email).first()
UsersByEmail_BugNoMatch(email) == {}

UsersByEmail(email) == {i \in DOMAIN users : users[i].email = email}

First(ids) == CHOOSE i \in ids : \A j \in ids : i <= j

\* "user and user.check_password(password)"; check_password_hash raises on a None password.
PasswordAccepted_BugAnyPassword(user_id, password) == TRUE

PasswordAccepted(user_id, password) == check_password(users[user_id], password[1])

login(method, form) ==
    LET req == [route |-> "login", method |-> method, form |-> form, result |-> ""]
        found == UsersByUsername(form.username)
    IN  IF is_authenticated THEN ReplyOnly(req, "redirect_index")
        ELSE IF method # "POST" THEN ReplyOnly(req, "render_login")
        ELSE IF found = {} THEN ReplyOnly(req, "flash_bad_credentials_render_login")
        ELSE IF form.password = None THEN ReplyOnly(req, "500")
        ELSE IF PasswordAccepted(First(found), form.password)
             THEN /\ session' = Some(First(found))
                  /\ Reply(req, "redirect_next_or_index")
                  /\ UNCHANGED <<users, news, products, orders, uploads>>
        ELSE ReplyOnly(req, "flash_bad_credentials_render_login")

logout ==
    LET req == [route |-> "logout", method |-> "GET", result |-> ""]
    IN  IF Unauthorized THEN ReplyOnly(req, "redirect_login")
        ELSE /\ session' = None
             /\ Reply(req, "redirect_index")
             /\ UNCHANGED <<users, news, products, orders, uploads>>

\* The row register() builds: is_admin takes the column default.
NewUser_BugAdmin(form, salt) ==
    [username |-> form.username, email |-> form.email,
     password_hash |-> generate_password_hash(form.password[1], salt), is_admin |-> TRUE]

NewUser(form, salt) ==
    [username |-> form.username, email |-> form.email,
     password_hash |-> generate_password_hash(form.password[1], salt), is_admin |-> FALSE]

\* The NOT NULL columns of User; a violation fails the commit (500, rolled back).
UserIntegrityError(row) == row.username = None \/ row.email = None

register(method, form, salt) ==
    LET req == [route |-> "register", method |-> method, form |-> form, result |-> ""]
    IN  IF is_authenticated THEN ReplyOnly(req, "redirect_index")
        ELSE IF method # "POST" THEN ReplyOnly(req, "render_register")
        ELSE IF form.password # form.confirm_password THEN ReplyOnly(req, "flash_password_mismatch")
        ELSE IF UsersByUsername(form.username) # {} THEN ReplyOnly(req, "flash_username_taken")
        ELSE IF UsersByEmail(form.email) # {} THEN ReplyOnly(req, "flash_email_taken")
        ELSE IF form.password = None THEN ReplyOnly(req, "500")
        ELSE IF UserIntegrityError(NewUser(form, salt)) THEN ReplyOnly(req, "500")
        ELSE /\ users' = Append(users, NewUser(form, salt))
             /\ Reply(req, "redirect_login")
             /\ UNCHANGED <<news, products, orders, uploads, session>>

(***************************************************************************)
(* Image uploads.  A file name is a sequence of one-character strings; an  *)
(* upload is [filename, content].                                          *)
(***************************************************************************)
SafeChars == {"a", "b", "1", "_", ".", "-"}

RECURSIVE ReplaceSeparators(_)
\* filename.replace(os.sep, " ")
ReplaceSeparators(name) ==
    IF name = <<>> THEN <<>>
    ELSE <<IF Head(name) = "/" THEN " " ELSE Head(name)>> \o ReplaceSeparators(Tail(name))

RECURSIVE SplitJoin(_, _, _)
\* "_".join(filename.split()): runs of blanks become one "_" and the outer blanks go;
\* `started` once a word was copied, `gap` after blanks that follow a word.
SplitJoin(name, started, gap) ==
    IF name = <<>> THEN <<>>
    ELSE IF Head(name) = " " THEN SplitJoin(Tail(name), started, started)
    ELSE (IF gap THEN <<"_">> ELSE <<>>) \o <<Head(name)>> \o SplitJoin(Tail(name), TRUE, FALSE)

\* _filename_ascii_strip_re.sub("", ...): only [A-Za-z0-9_.-] stay.
AsciiStrip(name) == SelectSeq(name, LAMBDA c : c \in SafeChars)

RECURSIVE LStrip(_)
LStrip(name) ==
    IF name # <<>> /\ Head(name) \in {".", "_"} THEN LStrip(Tail(name)) ELSE name

RECURSIVE RStrip(_)
RStrip(name) ==
    IF name # <<>> /\ name[Len(name)] \in {".", "_"}
    THEN RStrip(SubSeq(name, 1, Len(name) - 1))
    ELSE name

\* werkzeug.utils.secure_filename
secure_filename(name) == RStrip(LStrip(AsciiStrip(SplitJoin(ReplaceSeparators(name), FALSE, FALSE))))

\* bool(FileStorage) is bool(filename)
HasFile(image) == image # None /\ image[1].filename # <<>>

\* f"{timestamp}_{filename}" under uploads/<folder>/
StampedPath(folder, timestamp, image) ==
    <<"uploads", folder, timestamp, "_">> \o secure_filename(image[1].filename)

\* The product form of admin_create_product keeps the bare file name.
BarePath(folder, image) == <<"uploads", folder>> \o secure_filename(image[1].filename)

\* image.save(image_path)
Save(path, image) == Insert(uploads, path, image[1].content)

(***************************************************************************)
(* /admin/news/...                                                         *)
(***************************************************************************)
\* The NOT NULL columns of News.
NewsIntegrityError(row) == row.title = None \/ row.content = None

admin_create_news(method, form, timestamp) ==
    LET req == [route |-> "admin_create_news", method |-> method, form |-> form, result |-> ""]
        path == StampedPath("news", timestamp, form.image)
        row == [title |-> form.title, content |-> form.content,
                image |-> IF HasFile(form.image) THEN Some(path) ELSE None,
                is_published |-> (form.is_published = Some("1"))]
    IN  IF Unauthorized THEN ReplyOnly(req, "redirect_login")
        ELSE IF AccessDenied THEN ReplyOnly(req, "forbidden")
        ELSE IF method # "POST" THEN ReplyOnly(req, "render_create_news")
        ELSE IF ~TruthyStr(form.title) \/ ~TruthyStr(form.content)
             THEN ReplyOnly(req, "flash_required_fields")
        ELSE /\ news' = Insert(news, NextId(news), row)
             /\ uploads' = IF HasFile(form.image) THEN Save(path, form.image) ELSE uploads
             /\ Reply(req, "redirect_admin_news")
             /\ UNCHANGED <<users, products, orders, session>>

admin_edit_news(news_id, method, form, timestamp) ==
    LET req == [route |-> "admin_edit_news", method |-> method, news_id |-> news_id,
                form |-> form, result |-> ""]
        path == StampedPath("news", timestamp, form.image)
        row == [title |-> form.title, content |-> form.content,
                image |-> IF form.delete_image = Some("1") THEN None
                          ELSE IF HasFile(form.image) THEN Some(path)
                          ELSE news[news_id].image,
                is_published |-> (form.is_published = Some("1"))]
    IN  IF Unauthorized THEN ReplyOnly(req, "redirect_login")
        ELSE IF AccessDenied THEN ReplyOnly(req, "forbidden")
        ELSE IF news_id \notin DOMAIN news THEN ReplyOnly(req, "404")
        ELSE IF method # "POST" THEN ReplyOnly(req, "render_edit_news")
        ELSE /\ uploads' = IF HasFile(form.image) THEN Save(path, form.image) ELSE uploads
             /\ IF NewsIntegrityError(row)
                THEN /\ Reply(req, "500")
                     /\ UNCHANGED <<users, news, products, orders, session>>
                ELSE /\ news' = [news EXCEPT ![news_id] = row]
                     /\ Reply(req, "redirect_admin_news")
                     /\ UNCHANGED <<users, products, orders, session>>

admin_delete_news(news_id, commit_ok) ==
    LET req == [route |-> "admin_delete_news", method |-> "POST", news_id |-> news_id,
                result |-> ""]
    IN  IF Unauthorized THEN ReplyOnly(req, "redirect_login")
        ELSE IF AccessDenied THEN ReplyOnly(req, "forbidden")
        ELSE IF news_id \notin DOMAIN news THEN ReplyOnly(req, "404")
        ELSE IF ~commit_ok THEN ReplyOnly(req, "flash_delete_error")
        ELSE /\ news' = Delete(news, news_id)
             /\ Reply(req, "redirect_admin_news")
             /\ UNCHANGED <<users, products, orders, uploads, session>>

(***************************************************************************)
(* /admin/order/<order_id>                                                 *)
(***************************************************************************)
\* new_status and new_status in ['novyj', 'v obrabotke', 'vypolnen', 'otmenen']
StatusAccepted_BugAnyStatus(new_status) == TruthyStr(new_status)

StatusAccepted(new_status) == TruthyStr(new_status) /\ new_status[1] \in ORDER_STATUSES

\* The notes after an admin note: text is a sequence of pieces, += appends.
AppendNote_BugOverwrite(notes, timestamp, admin_notes) ==
    <<"[Admin ", timestamp, "]: ", admin_notes>>

AppendNote(notes, timestamp, admin_notes) ==
    IF notes # <<>>
    THEN notes \o <<"\n[Admin ", timestamp, "]: ", admin_notes>>
    ELSE <<"[Admin ", timestamp, "]: ", admin_notes>>

admin_order_detail(order_id, method, form, timestamp) ==
    LET req == [route |-> "admin_order_detail", method |-> method, order_id |-> order_id,
                form |-> form, result |-> ""]
        admin_notes == FormGet(form.admin_notes, "")
    IN  IF Unauthorized THEN ReplyOnly(req, "redirect_login")
        ELSE IF AccessDenied THEN ReplyOnly(req, "forbidden")
        ELSE IF order_id \notin DOMAIN orders THEN ReplyOnly(req, "404")
        ELSE IF method # "POST" THEN ReplyOnly(req, "render_order_detail")
        ELSE /\ orders' = [orders EXCEPT
                    ![order_id].status = IF StatusAccepted(form.status) THEN form.status[1] ELSE @,
                    ![order_id].notes = IF admin_notes # ""
                                        THEN AppendNote(@, timestamp, admin_notes) ELSE @]
             /\ Reply(req, "redirect_order_detail")
             /\ UNCHANGED <<users, news, products, uploads, session>>

(***************************************************************************)
(* /admin/product/...                                                      *)
(***************************************************************************)
\* The NOT NULL columns of Product.
ProductIntegrityError(row) == row.name = None \/ row.price = None

admin_create_product(method, form) ==
    LET req == [route |-> "admin_create_product", method |-> method, form |-> form,
                result |-> ""]
        path == BarePath("products", form.image)
        row == [name |-> form.name, description |-> form.description, price |-> form.price,
                image |-> IF HasFile(form.image) THEN Some(path) ELSE None,
                category |-> form.category, is_active |-> TRUE,
                stock_quantity |-> FormGet(form.stock_quantity, 10)]
    IN  IF Unauthorized THEN ReplyOnly(req, "redirect_login")
        ELSE IF AccessDenied THEN ReplyOnly(req, "forbidden")
        ELSE IF method # "POST" THEN ReplyOnly(req, "render_create_product")
        ELSE /\ uploads' = IF HasFile(form.image) THEN Save(path, form.image) ELSE uploads
             /\ IF ProductIntegrityError(row)
                THEN /\ Reply(req, "500")
                     /\ UNCHANGED <<users, news, products, orders, session>>
                ELSE /\ products' = Insert(products, NextId(products), row)
                     /\ Reply(req, "redirect_admin_products")
                     /\ UNCHANGED <<users, news, orders, session>>

\* The row admin_edit_product writes over the product.
EditedProduct(product, form, path) ==
    [name |-> form.name, description |-> form.description, price |-> form.price,
     image |-> IF form.delete_image = Some("1") THEN None
               ELSE IF HasFile(form.image) THEN Some(path)
               ELSE product.image,
     category |-> form.category,
     is_active |-> (form.is_active = Some("1")),
     stock_quantity |-> FormGet(form.stock_quantity, 10)]

admin_edit_product(product_id, method, form, timestamp) ==
    LET req == [route |-> "admin_edit_product", method |-> method, product_id |-> product_id,
                form |-> form, result |-> ""]
        path == StampedPath("products", timestamp, form.image)
        row == EditedProduct(products[product_id], form, path)
    IN  IF Unauthorized THEN ReplyOnly(req, "redirect_login")
        ELSE IF AccessDenied THEN ReplyOnly(req, "forbidden")
        ELSE IF product_id \notin DOMAIN products THEN ReplyOnly(req, "404")
        ELSE IF method # "POST" THEN ReplyOnly(req, "render_edit_product")
        ELSE /\ uploads' = IF HasFile(form.image) THEN Save(path, form.image) ELSE uploads
             /\ IF ProductIntegrityError(row)
                THEN /\ Reply(req, "500")
                     /\ UNCHANGED <<users, news, products, orders, session>>
                ELSE /\ products' = [products EXCEPT ![product_id] = row]
                     /\ Reply(req, "redirect_admin_products")
                     /\ UNCHANGED <<users, news, orders, session>>

\* Order.query.filter_by(product_id=product_id).count()
OrdersCount_BugZero(product_id) == 0

OrdersCount(product_id) ==
    Cardinality({i \in DOMAIN orders : orders[i].product_id = product_id})

admin_delete_product(product_id, commit_ok) ==
    LET req == [route |-> "admin_delete_product", method |-> "POST",
                product_id |-> product_id, result |-> ""]
    IN  IF Unauthorized THEN ReplyOnly(req, "redirect_login")
        ELSE IF AccessDenied THEN ReplyOnly(req, "forbidden")
        ELSE IF product_id \notin DOMAIN products THEN ReplyOnly(req, "404")
        ELSE IF OrdersCount(product_id) > 0 THEN ReplyOnly(req, "flash_has_orders")
        ELSE IF ~commit_ok THEN ReplyOnly(req, "flash_delete_error")
        ELSE /\ products' = Delete(products, product_id)
             /\ Reply(req, "redirect_admin_products")
             /\ UNCHANGED <<users, news, orders, uploads, session>>

\* product.is_active = not product.is_active
Toggled_BugActivate(is_active) == TRUE

Toggled(is_active) == ~is_active

admin_toggle_product(product_id) ==
    LET req == [route |-> "admin_toggle_product", method |-> "POST",
                product_id |-> product_id, result |-> ""]
        entry == [product_id |-> product_id, before |-> products[product_id]]  \* the row as it was
    IN  IF Unauthorized THEN ReplyOnly(req, "redirect_login")
        ELSE IF AccessDenied THEN ReplyOnly(req, "forbidden")
        ELSE IF product_id \notin DOMAIN products THEN ReplyOnly(req, "404")
        ELSE /\ products' = [products EXCEPT ![product_id].is_active = Toggled(@)]
             /\ last' = [req EXCEPT !.result = "redirect_admin_products"]
             /\ toggles' = IF Len(toggles) = 1 /\ toggles[1].product_id = product_id
                           THEN Append(toggles, entry)
                           ELSE <<entry>>
             /\ UNCHANGED <<users, news, orders, uploads, session, inflight>>

(***************************************************************************)
(* /catalog                                                                *)
(***************************************************************************)
\* The rows the composed query selects, before paginate() cuts its window.
CatalogQuery(args) ==
    LET category == FormGet(args.category, "")
    IN  {id \in DOMAIN products :
            /\ category # "" => products[id].category = Some(category)
            /\ TruthyNum(args.min_price) => products[id].price[1] >= args.min_price[1]
            /\ TruthyNum(args.max_price) => products[id].price[1] <= args.max_price[1]
            /\ IF args.in_stock = Some("1")
               THEN products[id].is_active = TRUE /\ products[id].stock_quantity > 0
               ELSE products[id].is_active = TRUE}

catalog(args) ==
    LET req == [route |-> "catalog", method |-> "GET", args |-> args,
                selected |-> CatalogQuery(args), result |-> ""]
    IN  ReplyOnly(req, "render_catalog")

(***************************************************************************)
(* Requests.  The forms the specifications below submit.                   *)
(***************************************************************************)
CommitOutcomes == BOOLEAN

LoginForm(username, password) == [username |-> username, password |-> password]

OrderForm(customer_name, customer_email, quantity, notes) ==
    [customer_name |-> customer_name, customer_phone |-> Some("+7 900 000-00-00"),
     customer_email |-> customer_email, quantity |-> quantity, notes |-> notes]

StatusForm(status, admin_notes) == [status |-> status, admin_notes |-> admin_notes]

ProductForm(name, price, category, stock_quantity, is_active) ==
    [name |-> name, description |-> Some("text"), price |-> price, category |-> category,
     stock_quantity |-> stock_quantity, is_active |-> is_active, image |-> None,
     delete_image |-> None]

RegisterForm(username, email, password, confirm_password) ==
    [username |-> username, email |-> email, password |-> password,
     confirm_password |-> confirm_password]

NewsForm(title, is_published) ==
    [title |-> title, content |-> Some("text"), is_published |-> is_published,
     image |-> None, delete_image |-> None]

CatalogArgs(category, min_price, max_price, only_in_stock) ==
    [category |-> category, min_price |-> min_price, max_price |-> max_price,
     in_stock |-> only_in_stock]

EmptyForm == <<>>

\* The seeded admin's credentials.
AdminLogin == LoginForm(Some("admin"), Some("admin123"))

(***************************************************************************)
(* SpecPlace: order placement against stock that an admin moves.           *)
(***************************************************************************)
MaxOrders == 2

MaxQuantity == 6

ProductIds == {1, 2}

PlaceQuantities == {None} \cup {Some(q) : q \in -1 .. MaxQuantity}

PlaceLogin == login("POST", AdminLogin)

PlaceOrderForms ==
    {OrderForm(Some("Ivan"), None, quantity, None) : quantity \in PlaceQuantities}

RestockForm == ProductForm(Some("Item"), Some(10000), Some("Books"), Some(2), Some("1"))

PlaceOrder ==
    \E product_id \in ProductIds, form \in PlaceOrderForms :
        /\ create_order(product_id, "POST", form, TRUE)
        /\ Len(orders') <= MaxOrders

PlaceRestock ==
    \E product_id \in ProductIds : admin_edit_product(product_id, "POST", RestockForm, "t1")

NextPlace ==
    \/ PlaceLogin
    \/ PlaceOrder
    \/ PlaceRestock

InitPlace == init_database({"s1"})

SpecPlace == InitPlace /\ [][NextPlace]_vars

\* C1: every order create_order stores has, when it is stored, a quantity of at least 1
\* and at most the stock_quantity of its product, whatever quantity was requested.
C1_QuantityWithinStock ==
    [][\A i \in DOMAIN orders' \ DOMAIN orders :
            /\ orders'[i].product_id \in DOMAIN products
            /\ 1 <= orders'[i].quantity
            /\ orders'[i].quantity <= products[orders'[i].product_id].stock_quantity]_vars

\* An order was stored for the whole stock of its product, and the last request, for a
\* quantity of 0, stored an order with the floor quantity 1.
C1_Witness ==
    /\ last.route = "create_order"
    /\ last.result = "redirect_order_success"
    /\ last.form.quantity = Some(0)
    /\ orders[Len(orders)].quantity = 1
    /\ \E i \in DOMAIN orders :
            orders[i].quantity = products[orders[i].product_id].stock_quantity

\* C11: a create_order request, accepted or rejected, leaves every product's
\* stock_quantity as it was: no product appears or disappears, no stock moves, and a
\* stock that was not below zero is not below zero afterwards.
C11_StockUntouchedByOrders ==
    [][last'.route = "create_order"
        => /\ DOMAIN products' = DOMAIN products
           /\ \A id \in DOMAIN products :
                /\ products'[id].stock_quantity = products[id].stock_quantity
                /\ products[id].stock_quantity >= 0 => products'[id].stock_quantity >= 0]_vars

\* Two orders of five pieces each were accepted for the notebook, and its stock is still
\* the seeded five.
C11_Witness ==
    /\ last.route = "create_order"
    /\ last.result = "redirect_order_success"
    /\ Len(orders) = 2
    /\ \A i \in DOMAIN orders : orders[i].product_id = 1 /\ orders[i].quantity = 5
    /\ products[1].stock_quantity = 5

(***************************************************************************)
(* SpecRefs: orders and the deletion of the products they refer to.        *)
(***************************************************************************)
RefsLogin == login("POST", AdminLogin)

RefsProductIds == {1, 2, 3}

RefsOrderForms == {OrderForm(Some("Ivan"), None, quantity, None) : quantity \in {Some(1), Some(2)}}

RefsOrder ==
    \E product_id \in RefsProductIds, form \in RefsOrderForms :
        /\ create_order(product_id, "POST", form, TRUE)
        /\ Len(orders') <= MaxOrders

RefsDeleteProduct ==
    \E product_id \in RefsProductIds, commit_ok \in CommitOutcomes :
        admin_delete_product(product_id, commit_ok)

NextRefs ==
    \/ RefsLogin
    \/ logout
    \/ RefsOrder
    \/ RefsDeleteProduct

InitRefs == init_database({"s1"})

SpecRefs == InitRefs /\ [][NextRefs]_vars

\* The orders that refer to product_id.
OrdersOf(product_id) == {i \in DOMAIN orders : orders[i].product_id = product_id}

\* C2: after every request every order refers to a product that exists; an admin's
\* admin_delete_product of a product with at least one order removes nothing and the
\* product is still there to look up, and one of a product with no order removes it
\* (unless the store fails the commit).
C2_OrdersKeepTheirProduct ==
    [][/\ \A i \in DOMAIN orders' : orders'[i].product_id \in DOMAIN products'
       /\ (/\ last'.route = "admin_delete_product"
           /\ is_admin
           /\ last'.product_id \in DOMAIN products)
          => IF OrdersOf(last'.product_id) # {}
             THEN /\ products' = products
                  /\ orders' = orders
                  /\ last'.result = "flash_has_orders"
             ELSE \/ last'.result = "flash_delete_error" /\ products' = products
                  \/ /\ last'.result = "redirect_admin_products"
                     /\ products' = Delete(products, last'.product_id)]_vars

\* The admin was refused the deletion of a product that has an order, after deleting
\* another product that had none.
C2_Witness ==
    /\ last.route = "admin_delete_product"
    /\ last.result = "flash_has_orders"
    /\ OrdersOf(last.product_id) # {}
    /\ last.product_id \in DOMAIN products
    /\ \E product_id \in RefsProductIds : product_id \notin DOMAIN products

(***************************************************************************)
(* SpecAccounts: registration, login and logout.                           *)
(***************************************************************************)
MaxUsers == 3

Salts == {"s1", "s2"}

AccountNames == {None, Some("admin"), Some("alice"), Some("bob")}

AccountEmails == {None, Some("admin@example.com"), Some("alice@example.com"),
                  Some("bob@example.com")}

\* (password, confirm_password): both absent, equal, different.
AccountPasswordPairs ==
    {<<None, None>>, <<Some("qwerty"), Some("qwerty")>>, <<Some("qwerty"), Some("qwertz")>>}

AccountLogins ==
    {LoginForm(u, p) : u \in AccountNames \cup {Some("testuser")},
                       p \in {None, Some("admin123"), Some("test123"), Some("qwerty")}}

AccountRegistrations ==
    {RegisterForm(u, e, pc[1], pc[2]) :
        u \in AccountNames, e \in AccountEmails, pc \in AccountPasswordPairs}

AccountsRegister ==
    \E form \in AccountRegistrations, salt \in Salts :
        /\ register("POST", form, salt)
        /\ Len(users') <= MaxUsers

AccountsLogin == \E form \in AccountLogins : login("POST", form)

AccountsLoginPage == login("GET", EmptyForm)

NextAccounts ==
    \/ AccountsRegister
    \/ AccountsLogin
    \/ AccountsLoginPage
    \/ logout

InitAccounts == init_database({"s1"})

SpecAccounts == InitAccounts /\ [][NextAccounts]_vars

\* No two rows of `table` share a username, and no two share an email.
UsersUnique(table) ==
    \A i, j \in DOMAIN table :
        i # j => table[i].username # table[j].username /\ table[i].email # table[j].email

\* C3: after every request no two users share a username and no two share an email, and
\* a register POST whose username or email is that of an existing user creates no user.
C3_UsersStayUnique ==
    [][/\ UsersUnique(users)
       /\ UsersUnique(users')
       /\ (/\ last'.route = "register"
           /\ last'.method = "POST"
           /\ \E i \in DOMAIN users : \/ users[i].username = last'.form.username
                                      \/ users[i].email = last'.form.email)
          => users' = users]_vars

\* A user has registered, and the last registration, under a fresh username but with that
\* user's email, was turned away.
C3_Witness ==
    /\ last.route = "register"
    /\ last.result = "flash_email_taken"
    /\ Len(users) > Len(SeedUsers("s1", "s1"))
    /\ users[Len(users)].email = last.form.email
    /\ \A i \in DOMAIN users : users[i].username # last.form.username

\* The submitted credentials are those of user i.
CredentialsMatch(i, form) ==
    /\ users[i].username = form.username
    /\ form.password # None
    /\ check_password_hash(users[i].password_hash, form.password[1])

\* C5: a login POST of a browser that is not logged in leaves it logged in if and only if
\* the submitted username is that of a user and the submitted password matches that user's
\* stored hash, and then as that user; with an unknown username or a wrong password the
\* browser stays logged out and gets the login page again; no stored row changes.
C5_LoginIffCredentials ==
    [][(last'.route = "login" /\ last'.method = "POST" /\ ~is_authenticated)
        => LET form == last'.form
           IN  /\ UNCHANGED <<users, news, products, orders, uploads>>
               /\ (session' # None) <=> (\E i \in DOMAIN users : CredentialsMatch(i, form))
               /\ \A i \in DOMAIN users :
                    CredentialsMatch(i, form)
                        => session' = Some(i) /\ last'.result = "redirect_next_or_index"
               /\ (/\ form.password # None \/ UsersByUsername(form.username) = {}
                   /\ \A i \in DOMAIN users : ~CredentialsMatch(i, form))
                  => /\ session' = None
                     /\ last'.result = "flash_bad_credentials_render_login"]_vars

\* A registered user's login was refused for a password that is another user's password.
C5_Witness ==
    /\ last.route = "login"
    /\ last.method = "POST"
    /\ last.result = "flash_bad_credentials_render_login"
    /\ session = None
    /\ \E i \in DOMAIN users :
            /\ users[i].username = last.form.username
            /\ ~check_password_hash(users[i].password_hash, last.form.password[1])
            /\ \E j \in DOMAIN users :
                    check_password_hash(users[j].password_hash, last.form.password[1])

(***************************************************************************)
(* Spec: every handler, each with a few forms, for the three kinds of      *)
(* requester: nobody logged in, the test user, the admin.                  *)
(***************************************************************************)
MaxRows == 1

\* The seeded test user's credentials.
UserLogin == LoginForm(Some("testuser"), Some("test123"))

RowIds == {1}

Logins == {AdminLogin, UserLogin}

AliceForm ==
    RegisterForm(Some("alice"), Some("alice@example.com"), Some("qwerty"), Some("qwerty"))

OneItemForm == OrderForm(Some("Ivan"), None, Some(1), None)

NoFilters == CatalogArgs(None, None, None, None)

CreateNewsForms == {NewsForm(title, Some("1")) : title \in {None, Some("Sale")}}

EditNewsForm == NewsForm(Some("Sale"), None)

DoneForm == StatusForm(Some("vypolnen"), None)

NewProductForm == ProductForm(Some("Item"), Some(10000), Some("Books"), None, None)

SpecLogin == \E form \in Logins : login("POST", form)

SpecRegister ==
    /\ register("POST", AliceForm, "s1")
    /\ Len(users') <= MaxUsers

SpecCreateOrder ==
    \E commit_ok \in CommitOutcomes :
        /\ create_order(1, "POST", OneItemForm, commit_ok)
        /\ Len(orders') <= MaxRows

SpecViewCatalog == catalog(NoFilters)

SpecCreateNews ==
    \E form \in CreateNewsForms :
        /\ admin_create_news("POST", form, "t1")
        /\ Cardinality(DOMAIN news') <= Len(SeedNews) + MaxRows

SpecEditNews == \E news_id \in RowIds : admin_edit_news(news_id, "POST", EditNewsForm, "t1")

SpecDeleteNews ==
    \E news_id \in RowIds, commit_ok \in CommitOutcomes : admin_delete_news(news_id, commit_ok)

SpecOrderDetail ==
    \E order_id \in RowIds : admin_order_detail(order_id, "POST", DoneForm, "t1")

SpecCreateProduct ==
    /\ admin_create_product("POST", NewProductForm)
    /\ Cardinality(DOMAIN products') <= Len(SeedProducts) + MaxRows

SpecEditProduct ==
    \E product_id \in RowIds : admin_edit_product(product_id, "POST", RestockForm, "t1")

SpecDeleteProduct ==
    \E product_id \in RowIds, commit_ok \in CommitOutcomes :
        admin_delete_product(product_id, commit_ok)

SpecToggleProduct == \E product_id \in RowIds : admin_toggle_product(product_id)

Next ==
    \/ SpecLogin
    \/ logout
    \/ SpecRegister
    \/ SpecCreateOrder
    \/ SpecViewCatalog
    \/ SpecCreateNews
    \/ SpecEditNews
    \/ SpecDeleteNews
    \/ SpecOrderDetail
    \/ SpecCreateProduct
    \/ SpecEditProduct
    \/ SpecDeleteProduct
    \/ SpecToggleProduct

Init == init_database({"s1"})

Spec == Init /\ [][Next]_vars

AdminRoutes ==
    {"admin_create_news", "admin_edit_news", "admin_delete_news", "admin_order_detail",
     "admin_create_product", "admin_edit_product", "admin_delete_product",
     "admin_toggle_product"}

\* C4: a request to an admin route from a browser that is not logged in, or is logged in
\* as a user whose is_admin is false, changes no News, Product, Order or User row; and a
\* request of any route that changes a News or Product row comes from an admin.
C4_AdminOnly ==
    [][/\ (last'.route \in AdminRoutes /\ ~is_admin)
            => /\ UNCHANGED <<users, news, products, orders>>
               /\ last'.result \in {"redirect_login", "forbidden"}
       /\ (news' # news \/ products' # products) => is_admin]_vars

\* The test user, logged in, was refused an admin route after the admin had changed the
\* news and the products.
C4_Witness ==
    /\ last.route \in AdminRoutes
    /\ last.result = "forbidden"
    /\ session = Some(2)
    /\ ~users[2].is_admin
    /\ news # SeedNews
    /\ products # SeedProducts

\* C8: a successful admin_toggle_product negates is_active of its product and changes
\* nothing else (no other field, no other product, no order, news, user or file); after
\* two consecutive toggles of the same product its row is what it was before the first.
C8_ToggleInvolution ==
    [][(last'.route = "admin_toggle_product" /\ last'.result = "redirect_admin_products")
        => /\ is_admin
           /\ last'.product_id \in DOMAIN products
           /\ products' = [products EXCEPT
                    ![last'.product_id].is_active = ~products[last'.product_id].is_active]
           /\ UNCHANGED <<users, news, orders, uploads, session>>
           /\ Len(toggles') = 2 => products'[last'.product_id] = toggles'[1].before]_vars

\* The admin has toggled twice in a row a product that was switched off.
C8_Witness ==
    /\ last.route = "admin_toggle_product"
    /\ Len(toggles) = 2
    /\ toggles[1].product_id = toggles[2].product_id
    /\ ~toggles[1].before.is_active
    /\ toggles[2].before.is_active

Admins(table) == {i \in DOMAIN table : table[i].is_admin}

\* C18: no request changes who is an administrator or removes a user.  Every request
\* keeps every user with the is_admin flag and the password hash they had; a user is
\* added only by register, with is_admin false; so the admins are the seeded admins.
C18_AdminsAndUsersKept ==
    [][/\ Len(users') >= Len(users)
       /\ \A i \in DOMAIN users :
            /\ users'[i].is_admin = users[i].is_admin
            /\ users'[i].password_hash = users[i].password_hash
       /\ \A i \in DOMAIN users' \ DOMAIN users :
            /\ last'.route = "register"
            /\ ~users'[i].is_admin
       /\ Admins(users') = Admins(SeedUsers("s1", "s1"))]_vars

\* alice registered, and afterwards the admin logged in and changed a product: alice is
\* no admin and the two seeded users are as they were.
C18_Witness ==
    /\ last.route = "admin_edit_product"
    /\ last.result = "redirect_admin_products"
    /\ Len(users) = 3
    /\ users[3].username = Some("alice")
    /\ ~users[3].is_admin
    /\ SubSeq(users, 1, 2) = SeedUsers("s1", "s1")

(***************************************************************************)
(* SpecCatalog: the catalog query over products an admin edits and toggles. *)
(***************************************************************************)
CatalogCategories == {None, Some(""), Some("Electronics"), Some("Books")}

CatalogPrices == {None, Some(0), Some(2499900)}

CatalogProductForms ==
    {ProductForm(Some("Item"), Some(p), Some("Books"), q, a) :
        p \in {0, 2499900}, q \in {None, Some(-1), Some(0)}, a \in {None, Some("1")}}

CatalogLogin == login("POST", AdminLogin)

CatalogQueries ==
    {CatalogArgs(category, min_price, max_price, only_in_stock) :
        category \in CatalogCategories, min_price \in CatalogPrices,
        max_price \in CatalogPrices, only_in_stock \in {None, Some("1")}}

CatalogView == \E args \in CatalogQueries : catalog(args)

CatalogEditProduct ==
    \E product_id \in ProductIds, form \in CatalogProductForms :
        admin_edit_product(product_id, "POST", form, "t1")

CatalogToggleProduct == \E product_id \in ProductIds : admin_toggle_product(product_id)

NextCatalog ==
    \/ CatalogLogin
    \/ CatalogView
    \/ CatalogEditProduct
    \/ CatalogToggleProduct

InitCatalog == init_database({"s1"})

SpecCatalog == InitCatalog /\ [][NextCatalog]_vars

\* C6: whatever category, min_price and max_price are supplied or omitted, the catalog
\* selects exactly the active products that satisfy every supplied filter: the category
\* is equal, the price is at least min_price, the price is at most max_price.  (An empty
\* category, the form's "all categories", counts as omitted; in_stock is left out.)
C6_CatalogConjunctive ==
    (last.route = "catalog" /\ last.args.in_stock = None)
    => last.selected =
        {id \in DOMAIN products :
            /\ products[id].is_active
            /\ TruthyStr(last.args.category) => products[id].category = last.args.category
            /\ last.args.min_price # None => products[id].price[1] >= last.args.min_price[1]
            /\ last.args.max_price # None => products[id].price[1] <= last.args.max_price[1]}

\* C7: for every product in_stock is (is_active and stock_quantity > 0), and the catalog
\* with in_stock=1 selects, among the products it selects without it, exactly those whose
\* in_stock is true.
C7_InStock ==
    /\ \A id \in DOMAIN products :
            in_stock(products[id])
                <=> (products[id].is_active = TRUE /\ products[id].stock_quantity >= 1)
    /\ (last.route = "catalog" /\ last.args.in_stock = Some("1"))
        => last.selected =
            {id \in CatalogQuery([last.args EXCEPT !.in_stock = None]) : in_stock(products[id])}

\* The catalog was asked for in_stock=1 alone while the products included an active one
\* with negative stock, an inactive one with stock and active ones with stock.
C7_Witness ==
    /\ last.route = "catalog"
    /\ last.args = CatalogArgs(None, None, None, Some("1"))
    /\ \E id \in DOMAIN products : products[id].is_active /\ products[id].stock_quantity < 0
    /\ \E id \in DOMAIN products : ~products[id].is_active /\ products[id].stock_quantity > 0
    /\ last.selected # {}

(***************************************************************************)
(* SpecStatus: orders and the admin's changes of their status.             *)
(***************************************************************************)
OrderIds == 1 .. MaxOrders

StatusInputs == {None, Some(""), Some("dostavlen")} \cup {Some(st) : st \in ORDER_STATUSES}

StatusLogin == login("POST", AdminLogin)

DefaultQuantityForm == OrderForm(Some("Ivan"), None, None, None)

StatusForms == {StatusForm(status, None) : status \in StatusInputs}

StatusOrder ==
    \E product_id \in ProductIds :
        /\ create_order(product_id, "POST", DefaultQuantityForm, TRUE)
        /\ Len(orders') <= MaxOrders

StatusOrderDetail ==
    \E order_id \in OrderIds, form \in StatusForms :
        admin_order_detail(order_id, "POST", form, "t1")

NextStatus ==
    \/ StatusLogin
    \/ StatusOrder
    \/ StatusOrderDetail

InitStatus == init_database({"s1"})

SpecStatus == InitStatus /\ [][NextStatus]_vars

\* C9: after every request every order's status is one of the four values; create_order
\* stores 'novyj'; an admin's admin_order_detail POST sets the submitted status when it is
\* one of the four, whatever the status was, and leaves the status alone when it is absent
\* or any other value.
C9_StatusInEnumeration ==
    [][/\ \A i \in DOMAIN orders' : orders'[i].status \in ORDER_STATUSES
       /\ \A i \in DOMAIN orders' \ DOMAIN orders : orders'[i].status = "novyj"
       /\ (/\ last'.route = "admin_order_detail"
           /\ last'.method = "POST"
           /\ is_admin
           /\ last'.order_id \in DOMAIN orders)
          => orders'[last'.order_id].status =
                IF last'.form.status # None /\ last'.form.status[1] \in ORDER_STATUSES
                THEN last'.form.status[1]
                ELSE orders[last'.order_id].status]_vars

\* The admin submitted a status outside the enumeration for an order moved to 'vypolnen'
\* before, and the order is still 'vypolnen'.
C9_Witness ==
    /\ last.route = "admin_order_detail"
    /\ last.result = "redirect_order_detail"
    /\ last.form.status = Some("dostavlen")
    /\ orders[last.order_id].status = "vypolnen"

(***************************************************************************)
(* SpecPrice: orders and the admin's changes of the price of their product. *)
(***************************************************************************)
PriceInputs == {None, Some(0), Some(10000)}

PriceLogin == login("POST", AdminLogin)

PriceOrderForms == {OrderForm(Some("Ivan"), None, quantity, None) : quantity \in {Some(1), Some(3)}}

PriceProductForms ==
    {ProductForm(Some("Item"), price, Some("Books"), Some(5), Some("1")) : price \in PriceInputs}

PriceOrder ==
    \E product_id \in ProductIds, form \in PriceOrderForms :
        /\ create_order(product_id, "POST", form, TRUE)
        /\ Len(orders') <= MaxOrders

PriceEditProduct ==
    \E product_id \in ProductIds, form \in PriceProductForms :
        admin_edit_product(product_id, "POST", form, "t1")

NextPrice ==
    \/ PriceLogin
    \/ PriceOrder
    \/ PriceEditProduct

InitPrice == init_database({"s1"})

SpecPrice == InitPrice /\ [][NextPrice]_vars

\* C10: an order row has no total_price column; what total_price reads is the price its
\* product has now times the order's quantity, so that once an admin's edit has set a
\* product's price every order of that product reads the new price times its quantity.
C10_TotalPriceAtReadTime ==
    [][/\ \A i \in DOMAIN orders' :
            /\ "total_price" \notin DOMAIN orders'[i]
            /\ orders'[i].product_id \in DOMAIN products'
            /\ (total_price(orders[i]))' =
                    products'[orders'[i].product_id].price[1] * orders'[i].quantity
       /\ (last'.route = "admin_edit_product" /\ last'.result = "redirect_admin_products")
          => \A i \in OrdersOf(last'.product_id) :
                (total_price(orders[i]))' = last'.form.price[1] * orders[i].quantity]_vars

\* The admin has set to 100.00 the price of a product ordered before at another price
\* with quantity 3: the order reads 300.00.
C10_Witness ==
    /\ last.route = "admin_edit_product"
    /\ last.result = "redirect_admin_products"
    /\ last.form.price = Some(10000)
    /\ \E i \in OrdersOf(last.product_id) :
            /\ orders[i].quantity = 3
            /\ total_price(orders[i]) = 30000

(***************************************************************************)
(* SpecReject: the three forms with validation, submitted with fields      *)
(* missing, mismatched, taken or beyond the stock.                         *)
(***************************************************************************)
RejectLogin == login("POST", AdminLogin)

RejectRegistrations ==
    {RegisterForm(u, e, Some("qwerty"), confirm) :
        u \in {Some("admin"), Some("alice"), Some("bob")},
        e \in {Some("admin@example.com"), Some("alice@example.com")},
        confirm \in {Some("qwerty"), Some("qwertz")}}

RejectContacts == {None, Some(""), Some("Ivan")}

\* Quantities for the notebook (stock 5): within the stock and above it.
RejectOrderForms ==
    {[OrderForm(name, None, quantity, None) EXCEPT !.customer_phone = phone] :
        name \in RejectContacts, phone \in RejectContacts, quantity \in {Some(5), Some(6)}}

RejectTexts == {None, Some(""), Some("text")}

RejectNewsForms ==
    {[NewsForm(title, Some("1")) EXCEPT !.content = content] :
        title \in RejectTexts, content \in RejectTexts}

RejectRegister ==
    \E form \in RejectRegistrations :
        /\ register("POST", form, "s1")
        /\ Len(users') <= MaxUsers

RejectOrder ==
    \E form \in RejectOrderForms :
        /\ create_order(1, "POST", form, TRUE)
        /\ Len(orders') <= MaxOrders

RejectCreateNews ==
    \E form \in RejectNewsForms :
        /\ admin_create_news("POST", form, "t1")
        /\ Cardinality(DOMAIN news') <= Len(SeedNews) + MaxRows

NextReject ==
    \/ RejectLogin
    \/ logout
    \/ RejectRegister
    \/ RejectOrder
    \/ RejectCreateNews

InitReject == init_database({"s1"})

SpecReject == InitReject /\ [][NextReject]_vars

\* The request that was just handled is one the validation turns away: a register POST
\* whose passwords differ or whose username or email a stored user has; a create_order
\* POST without a name, without a phone, or for more pieces than the stock; an
\* admin_create_news POST without a title or without a content.
FailsValidation(req) ==
    \/ /\ req.route = "register"
       /\ req.method = "POST"
       /\ \/ req.form.password # req.form.confirm_password
          \/ \E i \in DOMAIN users : users[i].username = req.form.username
          \/ \E i \in DOMAIN users : users[i].email = req.form.email
    \/ /\ req.route = "create_order"
       /\ req.method = "POST"
       /\ req.product_id \in DOMAIN products
       /\ \/ req.form.customer_name \in {None, Some("")}
          \/ req.form.customer_phone \in {None, Some("")}
          \/ req.form.quantity # None
                /\ req.form.quantity[1] > products[req.product_id].stock_quantity
    \/ /\ req.route = "admin_create_news"
       /\ req.method = "POST"
       /\ \/ req.form.title \in {None, Some("")}
          \/ req.form.content \in {None, Some("")}

\* C12: a request rejected for a validation error stores nothing: no user, no order, no
\* article and no file is created, changed or removed by it.
C12_RejectedRequestsStoreNothing ==
    [][FailsValidation(last') => UNCHANGED <<users, news, products, orders, uploads>>]_vars

\* With alice registered and an order stored, bob's registration with alice's email
\* was turned away.
C12_Witness ==
    /\ last.route = "register"
    /\ last.result = "flash_email_taken"
    /\ last.form.username = Some("bob")
    /\ Len(users) = 3
    /\ Len(orders) = 1

(***************************************************************************)
(* SpecRace: order placements by workers that run in parallel; a request   *)
(* commits right after its checks or after other requests' steps.          *)
(***************************************************************************)
MaxInflight == 2

RaceOrderForms ==
    {OrderForm(Some("Ivan"), None, quantity, None) : quantity \in {Some(0), Some(3), Some(5), Some(6)}}

RaceCheck ==
    \E product_id \in ProductIds, form \in RaceOrderForms :
        /\ create_order_check(product_id, form)
        /\ Len(inflight') <= MaxInflight

RaceCommit ==
    \E i \in 1 .. MaxInflight, commit_ok \in CommitOutcomes :
        /\ create_order_commit(i, commit_ok)
        /\ Len(orders') <= MaxOrders

NextRace ==
    \/ RaceCheck
    \/ RaceCommit

InitRace == init_database({"s1"})

SpecRace == InitRace /\ [][NextRace]_vars

RECURSIVE OrderedQuantity(_, _)
\* The pieces of product_id that the orders in `rows` ask for, all together.
OrderedQuantity(rows, product_id) ==
    IF rows = <<>> THEN 0
    ELSE (IF Head(rows).product_id = product_id THEN Head(rows).quantity ELSE 0)
         + OrderedQuantity(Tail(rows), product_id)

\* The request's own quantity, at least 1, is within the stock of an active product.
PassesOwnCheck(req) ==
    LET product == products[req.product_id]
        asked == IF req.form.quantity = None THEN 1 ELSE req.form.quantity[1]
    IN  /\ product.is_active
        /\ product.stock_quantity > 0
        /\ (IF asked < 1 THEN 1 ELSE asked) <= product.stock_quantity

\* C13: order placements are not serialized against stock depletion.  A create_order
\* POST with the contact fields passes its checks exactly when its own quantity is within
\* the product's stock, whatever the orders already stored or held by other requests ask
\* for; and the commit of a request that passed stores its order without looking at the
\* stock again.
C13_OrdersNotSerialized ==
    [][/\ (last'.route = "create_order" /\ last'.step = "check")
            => /\ UNCHANGED orders
               /\ IF PassesOwnCheck(last')
                  THEN /\ last'.result = "checked"
                       /\ Len(inflight') = Len(inflight) + 1
                       /\ SubSeq(inflight', 1, Len(inflight)) = inflight
                       /\ inflight'[Len(inflight')].order.product_id = last'.product_id
                  ELSE UNCHANGED inflight
       /\ (last'.route = "create_order" /\ last'.step = "commit"
                /\ last'.result = "redirect_order_success")
            => /\ Len(orders') = Len(orders) + 1
               /\ SubSeq(orders', 1, Len(orders)) = orders
               /\ \E i \in DOMAIN inflight : orders'[Len(orders')] = inflight[i].order]_vars

\* Two requests for the notebook overlapped: the second to commit ran its checks before
\* the first was stored; each stayed within the stock of 5, together they ask for more.
C13_Witness ==
    /\ last.route = "create_order"
    /\ last.step = "commit"
    /\ last.result = "redirect_order_success"
    /\ last.seen < Len(orders) - 1
    /\ \A i \in DOMAIN orders : orders[i].product_id = 1 /\ orders[i].quantity <= 5
    /\ OrderedQuantity(orders, 1) > products[1].stock_quantity

(***************************************************************************)
(* SpecClamp: order placement with quantities below, within and above the  *)
(* stock an admin moves, on a store whose commit may fail.                 *)
(***************************************************************************)
ClampLogin == login("POST", AdminLogin)

ClampOrder ==
    \E product_id \in ProductIds, form \in PlaceOrderForms, commit_ok \in CommitOutcomes :
        /\ create_order(product_id, "POST", form, commit_ok)
        /\ Len(orders') <= MaxOrders

ClampRestock ==
    \E product_id \in ProductIds : admin_edit_product(product_id, "POST", RestockForm, "t1")

NextClamp ==
    \/ ClampLogin
    \/ ClampOrder
    \/ ClampRestock

InitClamp == init_database({"s1"})

SpecClamp == InitClamp /\ [][NextClamp]_vars

\* A create_order POST with the contact fields for a product that is in stock.
OrderablePost(req) ==
    /\ req.route = "create_order"
    /\ req.method = "POST"
    /\ req.product_id \in DOMAIN products
    /\ products[req.product_id].is_active
    /\ products[req.product_id].stock_quantity > 0
    /\ req.form.customer_name \notin {None, Some("")}
    /\ req.form.customer_phone \notin {None, Some("")}
    /\ req.form.quantity # None

\* The request stored exactly one order, of `quantity` pieces of its product.
StoredWithQuantity(req, quantity) ==
    /\ Len(orders') = Len(orders) + 1
    /\ SubSeq(orders', 1, Len(orders)) = orders
    /\ orders'[Len(orders')].product_id = req.product_id
    /\ orders'[Len(orders')].quantity = quantity

\* C14, as claimed: a create_order POST with the contact fields and a requested quantity
\* greater than the product's stock is clamped, not refused: it stores an order whose
\* quantity is the stock; a requested quantity below 1 stores an order with quantity 1.
C14_ClampedNotRefused ==
    [][OrderablePost(last') /\ last'.result # "flash_order_error"
        => /\ last'.form.quantity[1] > products[last'.product_id].stock_quantity
                => StoredWithQuantity(last', products[last'.product_id].stock_quantity)
           /\ last'.form.quantity[1] < 1 => StoredWithQuantity(last', 1)]_vars

\* C14, amended: a requested quantity greater than the product's stock is refused, not
\* clamped: the request stores nothing and is sent back to the form with the message
\* that names the stock.  A requested quantity below 1 stores an order with quantity 1,
\* unless the commit itself fails, and then nothing is stored.
C14_RefusedNotClamped ==
    [][OrderablePost(last')
        => /\ last'.form.quantity[1] > products[last'.product_id].stock_quantity
                => /\ last'.result = "flash_only_stock_left"
                   /\ UNCHANGED <<users, news, products, orders, uploads>>
           /\ last'.form.quantity[1] < 1
                => \/ /\ last'.result = "redirect_order_success"
                      /\ StoredWithQuantity(last', 1)
                   \/ /\ last'.result = "flash_order_error"
                      /\ UNCHANGED orders]_vars

\* Six pieces were asked of a product the admin restocked to two, after an order for the
\* two: the request was refused and the one order is all there is.
C14_Witness ==
    /\ last.route = "create_order"
    /\ last.result = "flash_only_stock_left"
    /\ last.form.quantity = Some(6)
    /\ products[last.product_id].stock_quantity = 2
    /\ Len(orders) = 1
    /\ orders[1].quantity = 2

(***************************************************************************)
(* SpecNotes: orders with and without the customer's notes, and the notes  *)
(* the admin adds to them.                                                 *)
(***************************************************************************)
MaxNotes == 2

NotesLogin == login("POST", AdminLogin)

\* The customer's notes: the field absent, empty, filled in.
NotesOrderForms ==
    {OrderForm(Some("Ivan"), None, Some(1), notes) :
        notes \in {None, Some(<<>>), Some(<<"call me">>)}}

NotesForms == {StatusForm(None, admin_notes) : admin_notes \in {None, Some(""), Some("paid")}}

NotesOrder ==
    \E form \in NotesOrderForms :
        /\ create_order(1, "POST", form, TRUE)
        /\ Len(orders') <= MaxOrders

\* A note takes four pieces: the line break and "[Admin ", the time, "]: ", the text.
NotesOrderDetail ==
    \E order_id \in OrderIds, method \in {"GET", "POST"}, form \in NotesForms :
        /\ admin_order_detail(order_id, method, form, "t1")
        /\ \A i \in DOMAIN orders' : Len(orders'[i].notes) <= 1 + 4 * MaxNotes

NextNotes ==
    \/ NotesLogin
    \/ logout
    \/ NotesOrder
    \/ NotesOrderDetail

InitNotes == init_database({"s1"})

SpecNotes == InitNotes /\ [][NextNotes]_vars

\* `old` is the beginning of `new`.
IsPrefix(old, new) == Len(old) <= Len(new) /\ SubSeq(new, 1, Len(old)) = old

\* C15: admin notes are appended, never overwritten.  After an admin_order_detail
\* request every order's earlier notes, the customer's included, begin its notes.  When
\* the admin POSTs a non-empty note for a stored order, that order's notes get strictly
\* longer and end with the submitted note; with an empty or absent note they stay as
\* they were.
C15_NotesAppended ==
    [][last'.route = "admin_order_detail"
        => /\ Len(orders') = Len(orders)
           /\ \A i \in DOMAIN orders : IsPrefix(orders[i].notes, orders'[i].notes)
           /\ (is_admin /\ last'.method = "POST" /\ last'.order_id \in DOMAIN orders)
                => LET old == orders[last'.order_id].notes
                       new == orders'[last'.order_id].notes
                   IN  IF last'.form.admin_notes \in {None, Some("")}
                       THEN new = old
                       ELSE /\ Len(new) > Len(old)
                            /\ new[Len(new)] = last'.form.admin_notes[1]]_vars

\* An order placed with the customer's notes carries them in front of two admin notes.
C15_Witness ==
    /\ last.route = "admin_order_detail"
    /\ last.result = "redirect_order_detail"
    /\ last.form.admin_notes = Some("paid")
    /\ Len(orders[last.order_id].notes) = 9
    /\ orders[last.order_id].notes[1] = "call me"
    /\ orders[last.order_id].notes[9] = "paid"

(***************************************************************************)
(* SpecOwner: orders placed by nobody, by the seeded users and by a user   *)
(* who registered with an empty email, with and without an email in the    *)
(* form.                                                                   *)
(***************************************************************************)
EveForm == RegisterForm(Some("eve"), Some(""), Some("qwerty"), Some("qwerty"))

OwnerLogins == {AdminLogin, UserLogin, LoginForm(Some("eve"), Some("qwerty"))}

OwnerOrderForms ==
    {OrderForm(Some("Ivan"), customer_email, Some(1), None) :
        customer_email \in {None, Some(""), Some("ivan@example.com")}}

OwnerRegister ==
    /\ register("POST", EveForm, "s1")
    /\ Len(users') <= MaxUsers

OwnerLogin == \E form \in OwnerLogins : login("POST", form)

OwnerOrder ==
    \E form \in OwnerOrderForms, commit_ok \in CommitOutcomes :
        /\ create_order(1, "POST", form, commit_ok)
        /\ Len(orders') <= MaxOrders

NextOwner ==
    \/ OwnerRegister
    \/ OwnerLogin
    \/ logout
    \/ OwnerOrder

InitOwner == init_database({"s1"})

SpecOwner == InitOwner /\ [][NextOwner]_vars

Blank == {None, Some("")}

\* C16: an order that create_order stores has the user_id of the user logged in for that
\* request, and none when nobody is; its customer_email is the submitted email when one
\* is submitted; otherwise it is the logged-in user's email, and empty when nobody is
\* logged in or that user's email is empty.  No order is attributed to anyone but the
\* requester.
C16_OrderAttribution ==
    [][Len(orders') > Len(orders)
        => LET row == orders'[Len(orders')]
               requester == IF session # None /\ session[1] \in DOMAIN users
                            THEN session ELSE None
           IN  /\ last'.route = "create_order"
               /\ Len(orders') = Len(orders) + 1
               /\ session' = session
               /\ row.user_id = requester
               /\ IF last'.form.customer_email \notin Blank
                  THEN row.customer_email = last'.form.customer_email
                  ELSE IF requester # None /\ users[requester[1]].email \notin Blank
                  THEN row.customer_email = users[requester[1]].email
                  ELSE row.customer_email \in Blank]_vars

\* After an order placed by nobody, the test user placed one without an email: it is
\* theirs and carries their email.
C16_Witness ==
    /\ last.route = "create_order"
    /\ last.result = "redirect_order_success"
    /\ last.form.customer_email = None
    /\ session = Some(2)
    /\ Len(orders) = 2
    /\ orders[1].user_id = None
    /\ orders[2].user_id = Some(2)
    /\ orders[2].customer_email = Some("test@example.com")

(***************************************************************************)
(* SpecUploads: the four handlers that take an image, every request at a   *)
(* time of its own: a timestamp that names a stored file is not drawn      *)
(* again.                                                                  *)
(***************************************************************************)
Timestamps == {"t1", "t2"}

\* Two file names, one of them with a separator and a blank, each with two contents.
UploadFiles ==
    {[filename |-> name, content |-> content] :
        name \in {<<"a", ".", "b">>, <<"/", "a", " ", "b">>}, content \in {"c1", "c2"}}

\* The file field absent, left empty in the browser, filled in.
UploadImages == {None, Some([filename |-> <<>>, content |-> ""])} \cup {Some(f) : f \in UploadFiles}

UploadNewsForms == {[EditNewsForm EXCEPT !.image = image] : image \in UploadImages}

UploadProductForms == {[RestockForm EXCEPT !.image = image] : image \in UploadImages}

FreshTimestamps == {ts \in Timestamps : \A p \in DOMAIN uploads : p[3] # ts}

UploadsLogin == login("POST", AdminLogin)

UploadsCreateNews ==
    \E form \in UploadNewsForms, timestamp \in FreshTimestamps :
        /\ admin_create_news("POST", form, timestamp)
        /\ Cardinality(DOMAIN news') <= Len(SeedNews) + MaxRows

UploadsEditNews ==
    \E form \in UploadNewsForms, timestamp \in FreshTimestamps :
        admin_edit_news(1, "POST", form, timestamp)

UploadsCreateProduct ==
    \E form \in UploadProductForms :
        /\ admin_create_product("POST", form)
        /\ Cardinality(DOMAIN products') <= Len(SeedProducts) + MaxRows + 1

UploadsEditProduct ==
    \E form \in UploadProductForms, timestamp \in FreshTimestamps :
        admin_edit_product(1, "POST", form, timestamp)

NextUploads ==
    \/ UploadsLogin
    \/ UploadsCreateNews
    \/ UploadsEditNews
    \/ UploadsCreateProduct
    \/ UploadsEditProduct

InitUploads == init_database({"s1"})

SpecUploads == InitUploads /\ [][NextUploads]_vars

UploadFolder(route) ==
    IF route \in {"admin_create_news", "admin_edit_news"} THEN "news" ELSE "products"

\* C17: every handler that takes an image stores it under a timestamp, "_" and the
\* sanitized file name, so that uploads at different times, of the same file name too,
\* never overwrite a file stored before.
C17_UploadsTimestamped ==
    [][(last'.route \in {"admin_create_news", "admin_edit_news",
                        "admin_create_product", "admin_edit_product"}
            /\ uploads' # uploads)
        => /\ \A p \in DOMAIN uploads : p \in DOMAIN uploads' /\ uploads'[p] = uploads[p]
           /\ \A p \in DOMAIN uploads' \ DOMAIN uploads :
                \E ts \in Timestamps :
                    p = <<"uploads", UploadFolder(last'.route), ts, "_">>
                            \o secure_filename(last'.form.image[1].filename)]_vars

(***************************************************************************)
(* SpecOutOfStock: orders for products an admin takes out of stock, by the  *)
(* stock count or by the active flag, and puts back.                        *)
(***************************************************************************)
OutOfStockProductForms ==
    {ProductForm(Some("Item"), Some(10000), Some("Books"), q, a) :
        q \in {Some(-1), Some(0), Some(2)}, a \in {None, Some("1")}}

OutOfStockOrderForms ==
    {OrderForm(name, None, quantity, None) :
        name \in {None, Some("Ivan")}, quantity \in {None, Some(3)}}

OutOfStockLogin == login("POST", AdminLogin)

OutOfStockEditProduct ==
    \E product_id \in ProductIds, form \in OutOfStockProductForms :
        admin_edit_product(product_id, "POST", form, "t1")

OutOfStockToggleProduct == \E product_id \in ProductIds : admin_toggle_product(product_id)

OutOfStockOrder ==
    \E product_id \in ProductIds, method \in {"GET", "POST"}, form \in OutOfStockOrderForms,
       commit_ok \in CommitOutcomes :
        /\ create_order(product_id, method, form, commit_ok)
        /\ Len(orders') <= MaxOrders

NextOutOfStock ==
    \/ OutOfStockLogin
    \/ OutOfStockEditProduct
    \/ OutOfStockToggleProduct
    \/ OutOfStockOrder

InitOutOfStock == init_database({"s1"})

SpecOutOfStock == InitOutOfStock /\ [][NextOutOfStock]_vars

NotInStock(product) == ~product.is_active \/ product.stock_quantity <= 0

\* C19: no order is created for a product that is not in stock at the time of the
\* request.  A create_order GET or POST for a product that is inactive or has
\* stock_quantity <= 0 is redirected to the product page and stores nothing, whatever
\* the form holds; and whenever a request adds an order, it adds one order, for a
\* product that was active with stock_quantity > 0 when the request arrived.
C19_NoOrderOutOfStock ==
    [][/\ (/\ last'.route = "create_order"
           /\ last'.product_id \in DOMAIN products
           /\ NotInStock(products[last'.product_id]))
          => /\ last'.result = "redirect_product_detail"
             /\ UNCHANGED <<users, news, products, orders, uploads>>
       /\ orders' # orders
          => /\ Len(orders') = Len(orders) + 1
             /\ SubSeq(orders', 1, Len(orders)) = orders
             /\ orders'[Len(orders')].product_id \in DOMAIN products
             /\ ~NotInStock(products[orders'[Len(orders')].product_id])]_vars

\* A complete order form is POSTed for a product that has stock but was deactivated
\* after an order for it had been placed: the request is redirected to the product page.
C19_Witness ==
    /\ last.route = "create_order"
    /\ last.method = "POST"
    /\ last.form.customer_name = Some("Ivan")
    /\ last.result = "redirect_product_detail"
    /\ ~products[last.product_id].is_active
    /\ products[last.product_id].stock_quantity > 0
    /\ Len(orders) = 1
    /\ orders[1].product_id = last.product_id

====
